---------------------------- MODULE Spec2Model ----------------------------
(***************************************************************************)
(* Schematic field placement (SchField) and schematic viewer selection     *)
(* (SchematicViewer.select) of kicanvas.                                   *)
(*                                                                         *)
(* Coordinates are integers.  Every coordinate the model draws is even and *)
(* every text extent a multiple of four, so the halvings done by the text  *)
(* box and by BBox.center are exact.                                       *)
(***************************************************************************)
EXTENDS Integers, Sequences, FiniteSets, TLC

VARIABLES field, parent, ret, last_op, flipped, schematic, layers, selected, call

field_vars == <<field, parent, ret, last_op, flipped>>
viewer_vars == <<schematic, layers, selected, call>>
vars == <<field, parent, ret, last_op, flipped, schematic, layers, selected, call>>

----------------------------------------------------------------------------
(* Bounds *)

MaxTextX == 1
MaxTextY == 1
MaxParentX == 1
MaxParentY == 1
MaxEdit == 1
MaxSymbols == 2
MaxBox == 2

----------------------------------------------------------------------------
(* Vec2 *)

Vec2(x, y) == [x |-> x, y |-> y]

Vec2Add(a, b) == Vec2(a.x + b.x, a.y + b.y)

Vec2Sub(a, b) == Vec2(a.x - b.x, a.y - b.y)

(* Angle.rotate_point, at the four cardinal angles. *)
rotate_point(deg, point, pivot) ==
    LET x == point.x - pivot.x
        y == point.y - pivot.y
        n == deg % 360
        r == CASE n = 0   -> Vec2(x, y)
               [] n = 90  -> Vec2(y, -x)
               [] n = 180 -> Vec2(-x, -y)
               [] n = 270 -> Vec2(-y, x)
    IN  Vec2(r.x + pivot.x, r.y + pivot.y)

----------------------------------------------------------------------------
(* Matrix3: nine elements, row-major; elements[k] of the code is m[k + 1]. *)

Matrix3(a, b, d, e) == <<a, b, 0, d, e, 0, 0, 0, 1>>

Identity == Matrix3(1, 0, 0, 1)

elements(m, k) == m[k + 1]

transform(m, v) ==
    Vec2(elements(m, 0) * v.x + elements(m, 1) * v.y + elements(m, 2),
         elements(m, 3) * v.x + elements(m, 4) * v.y + elements(m, 5))

MatMulSignSlip(a, b) ==
    Matrix3(elements(a, 0) * elements(b, 0) - elements(a, 1) * elements(b, 3),
            elements(a, 0) * elements(b, 1) + elements(a, 1) * elements(b, 4),
            elements(a, 3) * elements(b, 0) + elements(a, 4) * elements(b, 3),
            elements(a, 3) * elements(b, 1) + elements(a, 4) * elements(b, 4))

(* Matrix3.multiply on the linear part: the map "b, then a". *)
MatMul(a, b) ==
    Matrix3(elements(a, 0) * elements(b, 0) + elements(a, 1) * elements(b, 3),
            elements(a, 0) * elements(b, 1) + elements(a, 1) * elements(b, 4),
            elements(a, 3) * elements(b, 0) + elements(a, 4) * elements(b, 3),
            elements(a, 3) * elements(b, 1) + elements(a, 4) * elements(b, 4))

Abs(n) == IF n < 0 THEN -n ELSE n

(* The four symbol orientations KiCAD writes (sch_field.ts, lines 50-53).  *)
Orientations ==
    { Matrix3(1, 0, 0, -1), Matrix3(0, -1, -1, 0),
      Matrix3(-1, 0, 0, 1), Matrix3(0, 1, 1, 0) }

(* Each orientation, plain or mirrored: the eight orthogonal matrices with *)
(* entries in {-1, 0, 1}, the identity among them.                         *)
Transforms == Orientations \cup { MatMul(Matrix3(1, 0, 0, -1), m) : m \in Orientations }

Det(m) == elements(m, 0) * elements(m, 4) - elements(m, 1) * elements(m, 3)

Mirrors == { m \in Transforms : Det(m) = -1 }

----------------------------------------------------------------------------
(* BBox: a box held by its two corners. *)

BBox(s, e) == [start |-> s, end |-> e]

BBoxSetStart(b, v) == [b EXCEPT !.start = v]

BBoxSetEnd(b, v) == [b EXCEPT !.end = v]

BBoxCenter(b) == Vec2((b.start.x + b.end.x) \div 2, (b.start.y + b.end.y) \div 2)

----------------------------------------------------------------------------
(* EDAText *)

HAligns == {"left", "center", "right"}
VAligns == {"top", "center", "bottom"}
TextAngles == {0, 90, 180, 270}
Texts == {"REF1", "~"}

GlyphW == 4
GlyphH == 4

shown_text(f) == IF f.text = "~" THEN "" ELSE f.text

(* EDAText.get_text_box: the unrotated box of the shown text, laid out at   *)
(* text_pos according to h_align and v_align; a new box on every call.      *)
get_text_box(f) ==
    LET w == GlyphW * Len(shown_text(f))
        h == GlyphH
        x == CASE f.h_align = "left"   -> f.text_pos.x
               [] f.h_align = "center" -> f.text_pos.x - w \div 2
               [] f.h_align = "right"  -> f.text_pos.x - w
        y == CASE f.v_align = "top"    -> f.text_pos.y
               [] f.v_align = "center" -> f.text_pos.y - h \div 2
               [] f.v_align = "bottom" -> f.text_pos.y - h
    IN  BBox(Vec2(x, y), Vec2(x + w, y + h))

----------------------------------------------------------------------------
(* SchField *)

NoParent == [present |-> FALSE, position |-> Vec2(0, 0), transform |-> Identity]

Parent(pos, t) == [present |-> TRUE, position |-> pos, transform |-> t]

TextPositions == { Vec2(2 * i, 2 * j) : i \in 0..MaxTextX, j \in (-MaxTextY)..0 }

ParentPositions == { Vec2(2 * i, -2 * j) : i \in 0..MaxParentX, j \in 0..MaxParentY }

Fields ==
    [text : Texts, text_pos : TextPositions, text_angle : TextAngles,
     h_align : HAligns, v_align : VAligns]

Parents == {NoParent} \cup { Parent(pos, t) : pos \in ParentPositions, t \in Transforms }

draw_rotation_no_abs(f, p) ==
    LET this_deg == f.text_angle
        parent_transform == IF p.present THEN p.transform ELSE Identity
    IN  IF elements(parent_transform, 1) = 1
        THEN IF this_deg = 0 \/ this_deg = 180 THEN 90 ELSE 0
        ELSE this_deg

draw_rotation(f, p) ==
    LET this_deg == f.text_angle
        parent_transform == IF p.present THEN p.transform ELSE Identity
    IN  IF Abs(elements(parent_transform, 1)) = 1
        THEN IF this_deg = 0 \/ this_deg = 180 THEN 90 ELSE 0
        ELSE this_deg

position_not_reoffset(f, p) ==
    IF p.present
    THEN transform(p.transform, Vec2Sub(f.text_pos, p.position))
    ELSE f.text_pos

position(f, p) ==
    IF p.present
    THEN LET relative_pos == Vec2Sub(f.text_pos, p.position)
         IN  Vec2Add(transform(p.transform, relative_pos), p.position)
    ELSE f.text_pos

mirror(v, ref) == -(v - ref) + ref

bounding_box_by_draw_rotation(f, p) ==
    LET bbox == get_text_box(f)
        origin == IF p.present THEN p.position ELSE Vec2(0, 0)
        pos == Vec2Sub(f.text_pos, origin)
        rot == IF p.present /\ Abs(elements(p.transform, 1)) = 1
               THEN (IF f.text_angle = 0 \/ f.text_angle = 180 THEN 90 ELSE 0)
               ELSE f.text_angle
        begin0 == rotate_point(rot, Vec2Sub(bbox.start, origin), pos)
        end0 == rotate_point(rot, Vec2Sub(bbox.end, origin), pos)
        begin == IF p.present THEN Vec2(begin0.x, mirror(begin0.y, pos.y)) ELSE begin0
        end == IF p.present THEN Vec2(end0.x, mirror(end0.y, pos.y)) ELSE end0
        t == IF p.present THEN p.transform ELSE Identity
        b1 == BBoxSetStart(bbox, transform(t, begin))
        b2 == BBoxSetEnd(b1, transform(t, end))
    IN  BBoxSetStart(b2, Vec2Add(b2.start, origin))

bounding_box(f, p) ==
    LET bbox == get_text_box(f)
        origin == IF p.present THEN p.position ELSE Vec2(0, 0)
        pos == Vec2Sub(f.text_pos, origin)
        begin0 == rotate_point(f.text_angle, Vec2Sub(bbox.start, origin), pos)
        end0 == rotate_point(f.text_angle, Vec2Sub(bbox.end, origin), pos)
        begin == IF p.present THEN Vec2(begin0.x, mirror(begin0.y, pos.y)) ELSE begin0
        end == IF p.present THEN Vec2(end0.x, mirror(end0.y, pos.y)) ELSE end0
        t == IF p.present THEN p.transform ELSE Identity
        b1 == BBoxSetStart(bbox, transform(t, begin))
        b2 == BBoxSetEnd(b1, transform(t, end))
    IN  BBoxSetStart(b2, Vec2Add(b2.start, origin))

is_horiz_justify_flipped_same_test(f, p) ==
    LET center == BBoxCenter(bounding_box(f, p))
        pos == position(f, p)
        rot == draw_rotation(f, p)
        is_vertical == rot = 90 \/ rot = 270
    IN  CASE f.h_align = "left" ->
               IF is_vertical THEN center.y > pos.y ELSE center.x < pos.x
          [] f.h_align = "right" ->
               IF is_vertical THEN center.y > pos.y ELSE center.x < pos.x
          [] OTHER -> FALSE

is_horiz_justify_flipped(f, p) ==
    LET center == BBoxCenter(bounding_box(f, p))
        pos == position(f, p)
        rot == draw_rotation(f, p)
        is_vertical == rot = 90 \/ rot = 270
    IN  CASE f.h_align = "left" ->
               IF is_vertical THEN center.y > pos.y ELSE center.x < pos.x
          [] f.h_align = "right" ->
               IF is_vertical THEN center.y < pos.y ELSE center.x > pos.x
          [] OTHER -> FALSE

effective_horiz_justify(f, p) ==
    CASE f.h_align = "left" ->
           IF is_horiz_justify_flipped(f, p) THEN "right" ELSE "left"
      [] f.h_align = "right" ->
           IF is_horiz_justify_flipped(f, p) THEN "left" ELSE "right"
      [] f.h_align = "center" -> "center"

is_vert_justify_flipped_same_axis(f, p) ==
    LET center == BBoxCenter(bounding_box(f, p))
        pos == position(f, p)
        rot == draw_rotation(f, p)
        is_vertical == rot = 90 \/ rot = 270
    IN  CASE f.v_align = "top" ->
               IF is_vertical THEN center.x < pos.x ELSE center.y < pos.y
          [] f.v_align = "bottom" ->
               IF is_vertical THEN center.x > pos.x ELSE center.y > pos.y
          [] OTHER -> FALSE

is_vert_justify_flipped(f, p) ==
    LET center == BBoxCenter(bounding_box(f, p))
        pos == position(f, p)
        rot == draw_rotation(f, p)
        is_vertical == rot = 90 \/ rot = 270
    IN  CASE f.v_align = "top" ->
               IF is_vertical THEN center.x < pos.y ELSE center.y < pos.y
          [] f.v_align = "bottom" ->
               IF is_vertical THEN center.x > pos.x ELSE center.y > pos.y
          [] OTHER -> FALSE

effective_vert_justify(f, p) ==
    CASE f.v_align = "top" ->
           IF is_vert_justify_flipped(f, p) THEN "bottom" ELSE "top"
      [] f.v_align = "bottom" ->
           IF is_vert_justify_flipped(f, p) THEN "top" ELSE "bottom"
      [] f.v_align = "center" -> "center"

----------------------------------------------------------------------------
(* The field's getters as a caller reads them.  ret is the value the most   *)
(* recent read returned; last_op is the most recent operation.              *)

NoRet == [getter |-> "none", val |-> 0]

NoFlip == [F |-> Identity, n |-> 0, before |-> "none"]

GetDrawRotation ==
    /\ ret' = [getter |-> "draw_rotation", val |-> draw_rotation(field, parent)]
    /\ last_op' = "read"
    /\ UNCHANGED <<field, parent, flipped>>
    /\ UNCHANGED viewer_vars

GetPositionCached ==
    /\ ret' = IF ret.getter = "position"
              THEN ret
              ELSE [getter |-> "position", val |-> position(field, parent)]
    /\ last_op' = "read"
    /\ UNCHANGED <<field, parent, flipped>>
    /\ UNCHANGED viewer_vars

GetPosition ==
    /\ ret' = [getter |-> "position", val |-> position(field, parent)]
    /\ last_op' = "read"
    /\ UNCHANGED <<field, parent, flipped>>
    /\ UNCHANGED viewer_vars

GetBoundingBoxInPlace ==
    /\ ret' = [getter |-> "bounding_box", val |-> bounding_box(field, parent)]
    /\ field' = [field EXCEPT !.text_pos = Vec2Sub(field.text_pos, parent.position)]
    /\ last_op' = "read"
    /\ UNCHANGED <<parent, flipped>>
    /\ UNCHANGED viewer_vars

GetBoundingBox ==
    /\ ret' = [getter |-> "bounding_box", val |-> bounding_box(field, parent)]
    /\ last_op' = "read"
    /\ UNCHANGED <<field, parent, flipped>>
    /\ UNCHANGED viewer_vars

GetIsHorizJustifyFlipped ==
    /\ ret' = [getter |-> "is_horiz_justify_flipped", val |-> is_horiz_justify_flipped(field, parent)]
    /\ last_op' = "read"
    /\ UNCHANGED <<field, parent, flipped>>
    /\ UNCHANGED viewer_vars

GetEffectiveHorizJustify ==
    /\ ret' = [getter |-> "effective_horiz_justify", val |-> effective_horiz_justify(field, parent)]
    /\ last_op' = "read"
    /\ UNCHANGED <<field, parent, flipped>>
    /\ UNCHANGED viewer_vars

GetIsVertJustifyFlipped ==
    /\ ret' = [getter |-> "is_vert_justify_flipped", val |-> is_vert_justify_flipped(field, parent)]
    /\ last_op' = "read"
    /\ UNCHANGED <<field, parent, flipped>>
    /\ UNCHANGED viewer_vars

GetEffectiveVertJustify ==
    /\ ret' = [getter |-> "effective_vert_justify", val |-> effective_vert_justify(field, parent)]
    /\ last_op' = "read"
    /\ UNCHANGED <<field, parent, flipped>>
    /\ UNCHANGED viewer_vars

Read ==
    \/ GetDrawRotation
    \/ GetPosition
    \/ GetBoundingBox
    \/ GetIsHorizJustifyFlipped
    \/ GetEffectiveHorizJustify
    \/ GetIsVertJustifyFlipped
    \/ GetEffectiveVertJustify

(* The value getter g computes from field f and parent p. *)
Value(g, f, p) ==
    CASE g = "draw_rotation" -> draw_rotation(f, p)
      [] g = "position" -> position(f, p)
      [] g = "bounding_box" -> bounding_box(f, p)
      [] g = "is_horiz_justify_flipped" -> is_horiz_justify_flipped(f, p)
      [] g = "effective_horiz_justify" -> effective_horiz_justify(f, p)
      [] g = "is_vert_justify_flipped" -> is_vert_justify_flipped(f, p)
      [] g = "effective_vert_justify" -> effective_vert_justify(f, p)

(* The owner of the parent record moves or re-orients the symbol. *)
SetParentPosition(pos) ==
    /\ parent.present
    /\ pos # parent.position
    /\ parent' = [parent EXCEPT !.position = pos]
    /\ last_op' = "set_position"
    /\ flipped' = NoFlip
    /\ UNCHANGED <<field, ret>>
    /\ UNCHANGED viewer_vars

SetParentTransform(t) ==
    /\ parent.present
    /\ t # parent.transform
    /\ parent' = [parent EXCEPT !.transform = t]
    /\ last_op' = "set_transform"
    /\ flipped' = NoFlip
    /\ UNCHANGED <<field, ret>>
    /\ UNCHANGED viewer_vars

(* The owner applies the mirror F on top of the parent's transform.  flipped *)
(* counts the consecutive applications of the same F and keeps the           *)
(* horizontal justification in effect before the first of them.              *)
FlipParent(F) ==
    /\ parent.present
    /\ parent' = [parent EXCEPT !.transform = MatMul(F, parent.transform)]
    /\ flipped' = IF flipped.n = 1 /\ flipped.F = F
                  THEN [flipped EXCEPT !.n = 2]
                  ELSE [F |-> F, n |-> 1,
                        before |-> effective_horiz_justify(field, parent)]
    /\ last_op' = "flip"
    /\ UNCHANGED <<field, ret>>
    /\ UNCHANGED viewer_vars

----------------------------------------------------------------------------
(* SchematicViewer.select.  A value is null, a string, a SchematicSymbol   *)
(* or a BBox.  Symbol i has the uuid string i and the reference string     *)
(* MaxSymbols + i; the string 0 names no symbol.                           *)

Null == [type |-> "null", v |-> 0]

String(n) == [type |-> "string", v |-> n]

Symbol(i) == [type |-> "symbol", v |-> i]

Box(b) == [type |-> "bbox", v |-> b]

SymbolIds == 1..MaxSymbols

BoxIds == 1..MaxBox

Strings == { String(n) : n \in 0..(2 * MaxSymbols) }

SelectValues ==
    {Null} \cup Strings \cup { Symbol(i) : i \in SymbolIds } \cup { Box(b) : b \in BoxIds }

(* The boxes painted for one item: none, one or two. *)
BoxSeqs ==
    {<<>>} \cup { <<b>> : b \in BoxIds }
           \cup { <<b, c>> : b \in BoxIds, c \in BoxIds }

is_string(item) == item.type = "string"

(* KicadSch.find_symbol: the symbol of the schematic with this uuid or     *)
(* reference, or null.                                                     *)
find_symbol(sch, str) ==
    IF \E i \in sch : str.v = i \/ str.v = MaxSymbols + i
    THEN Symbol(CHOOSE i \in sch : str.v = i \/ str.v = MaxSymbols + i)
    ELSE Null

(* LayerSet.query_item_bboxes: the boxes painted for the item. *)
query_item_bboxes(lay, item) == lay[item.v]

(* first(iterable) ?? null *)
first(boxes) == IF boxes = <<>> THEN Null ELSE Box(boxes[1])

NoCall == [value |-> Null, threw |-> FALSE, prev |-> Null, n |-> 0]

select_unguarded(value) ==
    LET found == IF is_string(value) THEN find_symbol(schematic, value) ELSE value
        item == IF found.type = "symbol"
                THEN first(query_item_bboxes(layers, found))
                ELSE found
    IN  /\ selected' = (IF item.type = "bbox" THEN item ELSE Null)
        /\ call' = [value |-> value, threw |-> FALSE, prev |-> selected, n |-> 1]
        /\ UNCHANGED <<schematic, layers>>
        /\ UNCHANGED field_vars

(* select(value).  call records the argument of the most recent call, the  *)
(* selection it found and whether it threw.                                *)
select(value) ==
    LET found == IF is_string(value) THEN find_symbol(schematic, value) ELSE value
        item == IF found.type = "symbol"
                THEN first(query_item_bboxes(layers, found))
                ELSE found
    IN  /\ IF value # Null /\ item.type # "bbox"
           THEN /\ call' = [value |-> value, threw |-> TRUE, prev |-> selected, n |-> 1]
                /\ UNCHANGED selected
           ELSE /\ selected' = item
                /\ call' = [value |-> value, threw |-> FALSE, prev |-> selected, n |-> 1]
        /\ UNCHANGED <<schematic, layers>>
        /\ UNCHANGED field_vars

ViewerIdle ==
    /\ schematic = {}
    /\ layers = [i \in SymbolIds |-> <<>>]
    /\ selected = Null
    /\ call = NoCall

(* A field as constructed at schematic load, with or without a parent. *)
InitField ==
    /\ field \in Fields
    /\ parent \in Parents
    /\ ret = NoRet
    /\ last_op = "new"
    /\ flipped = NoFlip

Init == InitField /\ ViewerIdle

(* The positions an edited symbol is moved between. *)
EditPositions == { Vec2(2 * i, -2 * i) : i \in 0..MaxEdit }

(* A field of a symbol that is then edited: one anchor, every angle and    *)
(* alignment, the symbol loaded at the origin under any transform.         *)
InitEdit ==
    /\ field \in { f \in Fields : f.text = "REF1" /\ f.text_pos = Vec2(2, 0) }
    /\ parent \in { Parent(Vec2(0, 0), t) : t \in Transforms }
    /\ ret = NoRet
    /\ last_op = "new"
    /\ flipped = NoFlip
    /\ ViewerIdle

Next == Read

Spec == Init /\ [][Next]_vars

NextEdit ==
    \/ Read
    \/ \E pos \in EditPositions : SetParentPosition(pos)
    \/ \E t \in Transforms : SetParentTransform(t)

SpecEdit == InitEdit /\ [][NextEdit]_vars

NextFlip ==
    \/ GetEffectiveHorizJustify
    \/ \E F \in Mirrors : FlipParent(F)

SpecFlip == InitEdit /\ [][NextFlip]_vars

(* A viewer after load: some symbols in the schematic, each painted with   *)
(* none, one or two boxes; nothing selected.                               *)
InitViewer ==
    /\ schematic \in SUBSET SymbolIds
    /\ layers \in { l \in [SymbolIds -> BoxSeqs] : \A i \in SymbolIds \ schematic : l[i] = <<>> }
    /\ selected = Null
    /\ call = NoCall
    /\ field = [text |-> "REF1", text_pos |-> Vec2(0, 0), text_angle |-> 0,
                h_align |-> "left", v_align |-> "bottom"]
    /\ parent = NoParent
    /\ ret = NoRet
    /\ last_op = "new"
    /\ flipped = NoFlip

NextViewer == \E value \in SelectValues : select(value)

SpecViewer == InitViewer /\ [][NextViewer]_vars

----------------------------------------------------------------------------
(* Properties *)

WasRead(g) == last_op = "read" /\ ret.getter = g

ClaimDegrees == { 15 * k : k \in 0..23 }

ClaimDrawRotation(d) ==
    IF parent.present /\ parent.transform[2] \in {1, -1}
    THEN (IF d \in {0, 180} THEN 90 ELSE 0)
    ELSE d

(* C1: draw_rotation returns 90 (text_angle 0 or 180) or 0 (any other      *)
(* text_angle) when a parent is present whose elements[1] is 1 or -1, and  *)
(* text_angle itself in every other case.                                  *)
C1_DrawRotation ==
    WasRead("draw_rotation") =>
        /\ ret.val = ClaimDrawRotation(field.text_angle)
        /\ \A d \in ClaimDegrees :
             draw_rotation([field EXCEPT !.text_angle = d], parent) = ClaimDrawRotation(d)

C1_Witness ==
    /\ WasRead("draw_rotation")
    /\ parent.present
    /\ parent.transform[2] = -1
    /\ field.text_angle = 180
    /\ ret.val = 90

(* C2: position is text_pos with no parent and T(text_pos - P) + P with a  *)
(* parent at P under T; under the identity at (0,0) it is text_pos.        *)
C2_Position ==
    WasRead("position") =>
        /\ ~parent.present => ret.val = field.text_pos
        /\ parent.present =>
             LET T == parent.transform
                 P == parent.position
                 dx == field.text_pos.x - P.x
                 dy == field.text_pos.y - P.y
             IN  ret.val = Vec2(T[1] * dx + T[2] * dy + T[3] + P.x,
                                T[4] * dx + T[5] * dy + T[6] + P.y)
        /\ (parent.present /\ parent.transform = Identity
                /\ parent.position = Vec2(0, 0)) => ret.val = field.text_pos

C2_Witness ==
    /\ WasRead("position")
    /\ parent.present
    /\ parent.transform = Matrix3(0, -1, -1, 0)
    /\ parent.position = Vec2(2, -2)
    /\ field.text_pos = Vec2(0, 0)
    /\ ret.val = Vec2(0, 0)

(* C3: a read returns the value computed from the field and the parent as  *)
(* they are at that read, whatever the parent was at earlier reads.        *)
C3_NoCache ==
    last_op = "read" => ret.val = Value(ret.getter, field, parent)

C3_Witness ==
    /\ WasRead("position")
    /\ parent.position = Vec2(2, -2)
    /\ parent.transform = Matrix3(0, 1, 1, 0)
    /\ ret.val = Vec2(4, -2)

(* C4: a read of any geometric getter leaves the field, the parent and the *)
(* base text box unchanged.                                                *)
C4_ReadsMutateNothing ==
    [][last_op' = "read" =>
          /\ field' = field
          /\ parent' = parent
          /\ get_text_box(field') = get_text_box(field)]_vars

C4_Witness ==
    /\ WasRead("bounding_box")
    /\ parent.position = Vec2(2, -2)
    /\ field.text_angle = 90

ClaimRotate(deg, v, c) ==
    CASE deg = 0   -> v
      [] deg = 90  -> Vec2(c.x + (v.y - c.y), c.y - (v.x - c.x))
      [] deg = 180 -> Vec2(2 * c.x - v.x, 2 * c.y - v.y)
      [] deg = 270 -> Vec2(c.x - (v.y - c.y), c.y + (v.x - c.x))

ClaimCorner(v, o, withOffset) ==
    LET pos == Vec2(field.text_pos.x - o.x, field.text_pos.y - o.y)
        r == ClaimRotate(field.text_angle, Vec2(v.x - o.x, v.y - o.y), pos)
        m == IF parent.present THEN Vec2(r.x, 2 * pos.y - r.y) ELSE r
        T == IF parent.present THEN parent.transform ELSE Identity
        t == Vec2(T[1] * m.x + T[2] * m.y, T[4] * m.x + T[5] * m.y)
    IN  IF withOffset THEN Vec2(t.x + o.x, t.y + o.y) ELSE t

(* C5: bounding_box is the base box with each corner taken relative to the *)
(* origin, rotated about pos by text_angle, mirrored in y about pos.y when *)
(* a parent is present, and mapped by the parent transform; the origin is  *)
(* added back to start and not to end.                                     *)
C5_BoundingBox ==
    WasRead("bounding_box") =>
        LET base == get_text_box(field)
            o == IF parent.present THEN parent.position ELSE Vec2(0, 0)
        IN  /\ ret.val.start = ClaimCorner(base.start, o, TRUE)
            /\ ret.val.end = ClaimCorner(base.end, o, FALSE)
            /\ ~parent.present =>
                 /\ ret.val.start = ClaimRotate(field.text_angle, base.start, field.text_pos)
                 /\ ret.val.end = ClaimRotate(field.text_angle, base.end, field.text_pos)

C5_Witness ==
    /\ WasRead("bounding_box")
    /\ parent.present
    /\ parent.position = Vec2(2, -2)
    /\ parent.transform = Matrix3(0, -1, -1, 0)
    /\ field.text = "REF1"
    /\ field.text_angle = 90
    /\ field.h_align = "left"

ClaimCenter == BBoxCenter(bounding_box(field, parent))

ClaimPos == position(field, parent)

ClaimVertical == draw_rotation(field, parent) \in {90, 270}

(* C6: effective_horiz_justify turns left into right exactly when          *)
(* (vertical and center.y > pos.y) or (not vertical and center.x < pos.x), *)
(* right into left exactly when (vertical and center.y < pos.y) or (not    *)
(* vertical and center.x > pos.x), and returns center for center.          *)
C6_EffectiveHorizJustify ==
    WasRead("effective_horiz_justify") =>
        LET c == ClaimCenter
            pos == ClaimPos
            leftFlips == \/ ClaimVertical /\ c.y > pos.y
                         \/ ~ClaimVertical /\ c.x < pos.x
            rightFlips == \/ ClaimVertical /\ c.y < pos.y
                          \/ ~ClaimVertical /\ c.x > pos.x
        IN  /\ field.h_align = "left" => (ret.val = "right" <=> leftFlips)
            /\ field.h_align = "left" => ret.val \in {"left", "right"}
            /\ field.h_align = "right" => (ret.val = "left" <=> rightFlips)
            /\ field.h_align = "right" => ret.val \in {"left", "right"}
            /\ field.h_align = "center" => ret.val = "center"

C6_Witness ==
    /\ WasRead("effective_horiz_justify")
    /\ field.h_align = "right"
    /\ ClaimVertical
    /\ ClaimCenter.y < ClaimPos.y
    /\ ret.val = "left"

(* C7: is_vert_justify_flipped is, for top, center.x < pos.y when vertical *)
(* and center.y < pos.y otherwise; for bottom, center.x > pos.x when       *)
(* vertical and center.y > pos.y otherwise; false for center.              *)
(* effective_vert_justify swaps top and bottom exactly when it is true.    *)
C7_VertJustify ==
    LET c == ClaimCenter
        pos == ClaimPos
        flips == CASE field.v_align = "top" ->
                        IF ClaimVertical THEN c.x < pos.y ELSE c.y < pos.y
                   [] field.v_align = "bottom" ->
                        IF ClaimVertical THEN c.x > pos.x ELSE c.y > pos.y
                   [] field.v_align = "center" -> FALSE
        swapped == CASE field.v_align = "top" -> "bottom"
                     [] field.v_align = "bottom" -> "top"
                     [] field.v_align = "center" -> "center"
    IN  /\ WasRead("is_vert_justify_flipped") => ret.val = flips
        /\ WasRead("effective_vert_justify") =>
             ret.val = IF flips THEN swapped ELSE field.v_align

C7_Witness ==
    /\ WasRead("effective_vert_justify")
    /\ field.v_align = "top"
    /\ ClaimVertical
    /\ ClaimCenter.x < ClaimPos.y
    /\ ~(ClaimCenter.x < ClaimPos.x)
    /\ ret.val = "bottom"

Shifts == { Vec2(2, 0), Vec2(0, 2), Vec2(-2, -4) }

ShiftField(f, d) == [f EXCEPT !.text_pos = Vec2Add(f.text_pos, d)]

ShiftParent(p, d) == [p EXCEPT !.position = Vec2Add(p.position, d)]

(* C9: moving text_pos and parent.position by the same vector d leaves     *)
(* both flip results and both effective justifications unchanged and moves *)
(* bounding_box.center and position by exactly d.                          *)
C9_TranslationInvariant ==
    (WasRead("bounding_box") /\ parent.present) =>
        \A d \in Shifts :
            LET f2 == ShiftField(field, d)
                p2 == ShiftParent(parent, d)
            IN  /\ is_horiz_justify_flipped(f2, p2) = is_horiz_justify_flipped(field, parent)
                /\ is_vert_justify_flipped(f2, p2) = is_vert_justify_flipped(field, parent)
                /\ effective_horiz_justify(f2, p2) = effective_horiz_justify(field, parent)
                /\ effective_vert_justify(f2, p2) = effective_vert_justify(field, parent)
                /\ position(f2, p2) = Vec2Add(position(field, parent), d)
                /\ BBoxCenter(bounding_box(f2, p2)) = Vec2Add(BBoxCenter(ret.val), d)

ClaimSymbolBox(i) == IF layers[i] = <<>> THEN Null ELSE Box(layers[i][1])

(* The bounding box a select argument stands for, or Null when there is    *)
(* none: a box is itself, a symbol its first painted box, a string the     *)
(* first painted box of the symbol of the schematic it names.              *)
ClaimResolved(value) ==
    CASE value.type = "bbox" -> value
      [] value.type = "symbol" -> ClaimSymbolBox(value.v)
      [] value.type = "string" ->
           IF \E i \in schematic : value.v \in {i, MaxSymbols + i}
           THEN ClaimSymbolBox(CHOOSE i \in schematic : value.v \in {i, MaxSymbols + i})
           ELSE Null
      [] value.type = "null" -> Null

(* C10: select with a non-null value that resolves to no bounding box      *)
(* throws and leaves the selection as it was; select(null) clears the      *)
(* selection without error; every other call selects the resolved box; the *)
(* selection is always null or a bounding box.                             *)
C10_Select ==
    /\ selected.type \in {"null", "bbox"}
    /\ call.n = 1 =>
         LET r == ClaimResolved(call.value)
         IN  /\ (call.value # Null /\ r = Null) =>
                   (call.threw /\ selected = call.prev)
             /\ call.value = Null => (~call.threw /\ selected = Null)
             /\ (call.value # Null /\ r # Null) =>
                   (~call.threw /\ selected = r)

C10_Witness ==
    /\ call.n = 1
    /\ call.threw
    /\ call.value = Symbol(1)
    /\ 1 \in schematic
    /\ layers[1] = <<>>
    /\ call.prev = Box(2)
    /\ selected = Box(2)

============================================================================
